---- MODULE Spec2Model ----
\* Movie-room engine of parotia (backend/app/services/room_service.py,
\* backend/app/routers/room.py, backend/app/models/room.py), modelled for one
\* room code.  One action per request handler.  The server is one uvicorn worker
\* (backend/app/run.py) and the RoomService calls of the websocket handlers are
\* synchronous, so a websocket handler's reads and writes of the tables are not
\* interleaved with another handler's.  The REST endpoints declared with a
\* plain def run in the worker's thread pool: their steps do interleave, and
\* they are modelled one database round trip per action.  A websocket handler
\* gives way to other handlers at its awaits (the broadcasts); the specification
\* SpecFinish splits the handlers that end the voting there.
EXTENDS Integers, Sequences, FiniteSets, Bags

VARIABLES
    status,              \* Room.status, "none" while the room row does not exist
    creator_session_id,  \* Room.creator_session_id, 0 while the room does not exist
    max_participants,    \* Room.max_participants
    participants,        \* session ids of the room's RoomParticipant rows
    ready,               \* participants whose is_ready flag is set (mood submitted)
    interactions,        \* bag of RoomInteraction rows [session_id, tmdb_id, action]
    matches,             \* bag of RoomMatch rows, by tmdb_id
    ret,                 \* outcome of the last handler that ran
    rooms,               \* bag of Room rows [code, status] of the rooms table
    creating,            \* per request thread: the create_room call it runs
    vectors,             \* EmbeddingService.index: the key of each stored vector
    content_data,        \* EmbeddingService.content_data: the payload rows
    last_page,           \* cache key tmdb:ingest:popular:{content_type}:last_page
    fetched,             \* history: popular pages requested by continue_bulk_popular
    iret,                \* outcome of the last index or ingestion operation
    profile,             \* the user's UserEmotionalProfile row
    updating,            \* per pool thread: the profile update it runs
    committed,           \* history: profile updates that returned True
    raw,                 \* per content type: results of the similarity search
    bad,                 \* candidates without details or with vote_average < 6.0
    has_profile,         \* whether the user's profile has an emotion embedding
    renv,                \* the envelope returned by the last recommendation call
    rated,               \* tmdb ids of the user's UserRating rows (movies)
    rec_cache,           \* Redis keys rec:emotion:... and rec:public:emotion:..., by page
    cret,                \* the response of the last cached recommendation request
    ecount,              \* number of candidates handed to the page enrichment
    etop,                \* index score of the best candidate, in thousandths
    invalid,             \* tmdb ids without details or with vote_average < 6.0
    enriched,            \* per page: the clean list the enrichment returned
    awaiting,            \* sessions whose _handle_swipe waits in its match_found broadcast
    finished_sent,       \* history: voting_finished broadcasts of the room
    top_saved            \* history: times the top matches were stored as RoomMatch rows

roomVars == <<status, creator_session_id, max_participants, participants, ready,
              interactions, matches, ret>>
codeVars == <<rooms, creating>>
indexVars == <<vectors, content_data, last_page, fetched, iret>>
profileVars == <<profile, updating, committed>>
recVars == <<raw, bad, has_profile, renv>>
cacheVars == <<rated, rec_cache, cret>>
enrichVars == <<ecount, etop, invalid, enriched>>
finishVars == <<awaiting, finished_sent, top_saved>>

vars == <<roomVars, codeVars, indexVars, profileVars, recVars, cacheVars, enrichVars, finishVars>>

\* ---------------------------------------------------------------- bounds
NumSessions == 3      \* sessions that try to join the room
NumTitles == 1        \* titles swiped in the lifecycle specification Spec
VoteTitles == 2       \* titles swiped in the voting specification SpecVote
TopTitles == 6        \* titles scored in the ranking specification SpecTop
MaxRows == 2          \* RoomMatch rows per title (the table has no unique constraint)
NumCodes == 2         \* codes random.choices can draw in the specification SpecCodes
MaxRoomsPerCode == 2  \* Room rows per code that the rooms table is given space for
NumItems == 1         \* tmdb ids per content type in the specification SpecIndex
NumPages == 2         \* popular pages ingested in the specification SpecIndex
MaxIndexRows == 3     \* payload rows the index is given space for
MaxFinishes == 3      \* voting_finished broadcasts followed in the specification SpecFinish
EnrichCands == 20     \* candidates handed to the page enrichment
NumCachePages == 2    \* pages a cached recommendation request asks for
NumRatable == 2       \* titles that get rated or excluded
CacheResults == 10    \* results of the similarity search behind the cached modes
MaxRaw == 46          \* results per content type that a similarity search returns
MaxUpdates == 4       \* profile updates started in the specification SpecProfile

Sessions == 1..NumSessions
Titles == 1..NumTitles
\* Sessions are interchangeable: the room's creator is session 1.
Creators == {1}
MaxParticipantsChoices == {2}
Moods == {"", "calm"}

Min(a, b) == IF a < b THEN a ELSE b

Max(a, b) == IF a > b THEN a ELSE b

\* ------------------------------------------------------------ enumerations
WAITING == "waiting"
VOTING == "voting"
FINISHED == "finished"
LIKE == "like"
DISLIKE == "dislike"
SUPERLIKE == "superlike"
RoomAction == {LIKE, DISLIKE, SUPERLIKE}

NoRet ==
    [op |-> "none", sid |-> 0, tmdb_id |-> 0, action |-> "none", err |-> "none",
     match |-> 0, all_done |-> FALSE, top |-> <<>>, sent |-> <<>>, to |-> {}]

\* a message handed to ConnectionManager.broadcast, which sends it to every
\* connection of the room
Msg(type, tmdb_ids) == [type |-> type, tmdb_ids |-> tmdb_ids]

\* ConnectionManager.broadcast: the sessions whose connection gets the frame, given
\* the sessions connected to the room
broadcast(connected) == connected

\* ------------------------------------------------------------ Room (model)
\* is_joinable with the comparison off by one
is_joinable_inclusive(st, parts, maxp) ==
    st = WAITING /\ Cardinality(parts) <= maxp

is_joinable(st, parts, maxp) ==
    st = WAITING /\ Cardinality(parts) < maxp

are_all_participants_ready(parts, rdy) ==
    parts # {} /\ \A p \in parts : p \in rdy

is_creator(creator, sid) ==
    creator = sid

has_any_ready_participant(parts, rdy) ==
    \E p \in parts : p \in rdy

\* ------------------------------------------------------ RoomService helpers
Row(sid, tmdb, act) == [session_id |-> sid, tmdb_id |-> tmdb, action |-> act]

RowsOf(inter) == BagToSet(inter)

\* record_swipe without its lookup of the stored interaction
existing_interaction_never(inter, sid, tmdb) ==
    FALSE

existing_interaction(inter, sid, tmdb) ==
    \E r \in RowsOf(inter) : r.session_id = sid /\ r.tmdb_id = tmdb

\* the liked set with superlikes left out of the filter
liked_session_ids_like_only(inter, tmdb) ==
    {r.session_id : r \in {x \in RowsOf(inter) : x.tmdb_id = tmdb /\ x.action = LIKE}}

liked_session_ids(inter, tmdb) ==
    {r.session_id : r \in {x \in RowsOf(inter) :
        x.tmdb_id = tmdb /\ x.action \in {LIKE, SUPERLIKE}}}

is_unanimous(inter, parts, tmdb) ==
    parts \subseteq liked_session_ids(inter, tmdb)

swiped_tmdb_ids(inter, sid) ==
    {r.tmdb_id : r \in {x \in RowsOf(inter) : x.session_id = sid}}

\* the all-done test with any() in place of all()
have_any_participant_finished_swiping(st, parts, inter) ==
    IF st # VOTING THEN FALSE
    ELSE IF parts = {} THEN FALSE
    ELSE LET all_tmdb_ids == UNION {swiped_tmdb_ids(inter, p) : p \in parts}
         IN  IF all_tmdb_ids = {} THEN FALSE
             ELSE \E p \in parts : all_tmdb_ids \subseteq swiped_tmdb_ids(inter, p)

have_all_participants_finished_swiping(st, parts, inter) ==
    IF st # VOTING THEN FALSE
    ELSE IF parts = {} THEN FALSE
    ELSE LET all_tmdb_ids == UNION {swiped_tmdb_ids(inter, p) : p \in parts}
         IN  IF all_tmdb_ids = {} THEN FALSE
             ELSE \A p \in parts : all_tmdb_ids \subseteq swiped_tmdb_ids(inter, p)

\* the scoring weight with superlike counted like a like
weight_flat(action) ==
    1

weight(action) ==
    IF action = SUPERLIKE THEN 3 ELSE 1

top_k == 5

positive_interactions(inter) ==
    {r \in RowsOf(inter) : r.action \in {LIKE, SUPERLIKE}}

RECURSIVE SumWeights(_, _)
SumWeights(rows, inter) ==
    IF rows = {} THEN 0
    ELSE LET r == CHOOSE x \in rows : TRUE
         IN  weight(r.action) * CopiesIn(r, inter) + SumWeights(rows \ {r}, inter)

\* scores[tmdb_id]: the sum of the weights of the positive rows of the title
score(inter, tmdb) ==
    SumWeights({r \in positive_interactions(inter) : r.tmdb_id = tmdb}, inter)

scored_tmdb_ids(inter) ==
    {r.tmdb_id : r \in positive_interactions(inter)}

\* sorted(scores.items(), key=score, reverse=True): the sort is stable and the
\* query has no ORDER BY, so titles of equal score come in any order.
RECURSIVE sorted_tmdb_ids(_, _)
sorted_tmdb_ids(ids, inter) ==
    IF ids = {} THEN {<<>>}
    ELSE LET best == {t \in ids : \A u \in ids : score(inter, u) <= score(inter, t)}
         IN  UNION {{<<t>> \o rest : rest \in sorted_tmdb_ids(ids \ {t}, inter)} : t \in best}

Take(seq, n) ==
    SubSeq(seq, 1, IF Len(seq) < n THEN Len(seq) ELSE n)

\* the lists _calculate_top_matches can return for the stored interactions
calculate_top_matches(inter) ==
    IF positive_interactions(inter) = {} THEN {<<>>}
    ELSE {Take(o, top_k) : o \in sorted_tmdb_ids(scored_tmdb_ids(inter), inter)}

SeqToBag(seq) ==
    [t \in {seq[i] : i \in DOMAIN seq} |-> Cardinality({i \in DOMAIN seq : seq[i] = t})]

\* the RoomMatch table after the rows of `top` are added
add_matches(m, top) ==
    m (+) SeqToBag(top)

\* the RoomMatch table is capped at MaxRows rows per title
RowsFit(m, top) ==
    \A i \in DOMAIN top : CopiesIn(top[i], m) < MaxRows

\* join_or_rejoin_room without its check for a voting room
join_error_no_voting_check(st, parts, maxp, sid) ==
    IF sid \in parts THEN "none"
    ELSE IF st = FINISHED THEN "InvalidRoomAction"
    ELSE IF ~is_joinable(st, parts, maxp) THEN "RoomFull"
    ELSE "none"

\* join_or_rejoin_room without its is_joinable check
join_error_no_full_check(st, parts, maxp, sid) ==
    IF sid \in parts THEN "none"
    ELSE IF st = FINISHED THEN "InvalidRoomAction"
    ELSE IF st = VOTING THEN "RoomAlreadyStarted"
    ELSE "none"

join_error(st, parts, maxp, sid) ==
    IF sid \in parts THEN "none"
    ELSE IF st = FINISHED THEN "InvalidRoomAction"
    ELSE IF st = VOTING THEN "RoomAlreadyStarted"
    ELSE IF ~is_joinable(st, parts, maxp) THEN "RoomFull"
    ELSE "none"

\* force_start_voting without its check for a ready participant
force_start_error_no_ready_check(creator, sid, st, parts, rdy) ==
    IF ~is_creator(creator, sid) THEN "InvalidRoomAction"
    ELSE IF st # WAITING THEN "RoomAlreadyStarted"
    ELSE "none"

force_start_error(creator, sid, st, parts, rdy) ==
    IF ~is_creator(creator, sid) THEN "InvalidRoomAction"
    ELSE IF st # WAITING THEN "RoomAlreadyStarted"
    ELSE IF ~has_any_ready_participant(parts, rdy) THEN "InvalidRoomAction"
    ELSE "none"

\* force_finish_room without its check of the room's status
force_finish_error_no_status_check(creator, sid, st) ==
    IF ~is_creator(creator, sid) THEN "InvalidRoomAction"
    ELSE "none"

force_finish_error(creator, sid, st) ==
    IF ~is_creator(creator, sid) THEN "InvalidRoomAction"
    ELSE IF st # VOTING THEN "InvalidRoomAction"
    ELSE "none"

\* the RoomInteraction table after record_swipe's insert-if-absent
record_interaction(inter, sid, tmdb, act) ==
    IF existing_interaction(inter, sid, tmdb) THEN inter
    ELSE inter (+) SetToBag({Row(sid, tmdb, act)})

\* _check_for_match: the tmdb_id of the returned RoomMatch, 0 for None
check_for_match(inter, parts, tmdb) ==
    IF ~is_unanimous(inter, parts, tmdb) THEN 0 ELSE tmdb

\* the RoomMatch table after _check_for_match
matches_after_check(m, inter, parts, tmdb) ==
    IF ~is_unanimous(inter, parts, tmdb) THEN m
    ELSE IF BagIn(tmdb, m) THEN m
    ELSE m (+) SetToBag({tmdb})

\* ------------------------------------------------------------ room codes
Codes == 1..NumCodes
\* Two requests in the thread pool; a thread serves one request after another.
CodeThreads == {1, 2}
MaxCodeAttempts == 10

RoomRow(code, st) == [code |-> code, status |-> st]

NoCall == [pc |-> "idle", tries |-> 0, collided |-> 0, code |-> 0]

\* the query of _generate_unique_code: a room with this code that is not finished
code_exists(rms, code) ==
    \E r \in BagToSet(rms) : r.code = code /\ r.status # FINISHED

\* a rooms table whose code column has no unique index
code_taken_never(rms, code) ==
    FALSE

\* unique=True on Room.code: the INSERT fails when any row has the code
code_taken(rms, code) ==
    \E r \in BagToSet(rms) : r.code = code

CodesAtRest ==
    /\ rooms = EmptyBag
    /\ creating = [t \in CodeThreads |-> NoCall]

\* --------------------------------------------------- embedding index
ContentTypes == {"movie", "tv"}
Items == 1..NumItems
\* vote_average in tenths: 5.7 and 6.0
VoteAverages == {57, 60}
MIN_VOTE_AVERAGE == 60
MAX_POPULAR_PAGE == 500

\* a catalogue item as TMDB returns it; text is generate_content_text(item) # ""
Item(ct, id, v, txt) ==
    [content_type |-> ct, tmdb_id |-> id, vote_average |-> v, text |-> txt]

TmdbItems ==
    {Item(ct, id, v, txt) : ct \in ContentTypes, id \in Items, v \in VoteAverages,
                            txt \in BOOLEAN}

Key(item) == <<item.content_type, item.tmdb_id>>

Index(vecs, data) == [vectors |-> vecs, content_data |-> data]

\* the return value of add_content_with_details
add_ok(item) ==
    item.vote_average >= MIN_VOTE_AVERAGE /\ item.text

\* add_content_with_details: index.add, then content_data.append
add_content_with_details(idx, item) ==
    IF add_ok(item)
    THEN Index(Append(idx.vectors, Key(item)), Append(idx.content_data, item))
    ELSE idx

\* get_content_embedding: the scan of content_data
find_content(data, ct, id) ==
    \E i \in DOMAIN data : data[i].tmdb_id = id /\ data[i].content_type = ct

\* get_content_embedding for a key that is not stored, TMDB returning details
cache_content(idx, item) ==
    IF item.text THEN Index(idx.vectors, Append(idx.content_data, item)) ELSE idx

\* search_similar_content: the payloads of the hits, in index order
RECURSIVE search_hits(_, _, _)
search_hits(idx, i, ct) ==
    IF i > Len(idx.vectors) THEN <<>>
    ELSE IF i <= Len(idx.content_data)
            /\ (ct = "any" \/ idx.content_data[i].content_type = ct)
         THEN <<idx.content_data[i]>> \o search_hits(idx, i + 1, ct)
         ELSE search_hits(idx, i + 1, ct)

\* the loop of bulk_populate_popular over the results of one page
RECURSIVE add_all(_, _)
add_all(idx, items) ==
    IF items = <<>> THEN idx
    ELSE add_all(add_content_with_details(idx, Head(items)), Tail(items))

\* the results of the pages start_page..end_page in the order in which the loops
\* of bulk_populate_popular meet them (the range is split in halves to keep the
\* evaluation shallow); feed gives the results of each page, empty for a
\* failed request
RECURSIVE results_of_pages(_, _, _)
results_of_pages(feed, start_page, end_page) ==
    IF start_page > end_page THEN <<>>
    ELSE IF start_page = end_page THEN feed[start_page]
    ELSE LET mid == (start_page + end_page) \div 2
         IN  results_of_pages(feed, start_page, mid)
             \o results_of_pages(feed, mid + 1, end_page)

ingest_pages(idx, start_page, end_page, feed) ==
    add_all(idx, results_of_pages(feed, start_page, end_page))

LARGE_INDEX == 100000

\* whether the index is rebuilt as an IVF index
optimize_index_if_large(idx) ==
    Len(idx.vectors) > LARGE_INDEX

\* continue_bulk_popular that starts again at the stored page
start_page_at_cursor(last) ==
    IF last < 1 THEN 1 ELSE last

start_page_of(last) ==
    IF last + 1 < 1 THEN 1 ELSE last + 1

end_page_of(start_page, batch_pages) ==
    IF start_page + batch_pages - 1 > MAX_POPULAR_PAGE
    THEN MAX_POPULAR_PAGE ELSE start_page + batch_pages - 1

NoIRet ==
    [op |-> "none", content_type |-> "none", ok |-> FALSE, results |-> <<>>,
     cursor |-> 0, batch_pages |-> 0, start_page |-> 0, end_page |-> 0,
     ivf_optimized |-> FALSE]

IndexAtRest ==
    /\ vectors = <<>>
    /\ content_data = <<>>
    /\ last_page = [ct \in ContentTypes |-> 0]
    /\ fetched = [ct \in ContentTypes |-> {}]
    /\ iret = NoIRet

\* ------------------------------------------------ emotional profile
\* Two ratings of one user whose background tasks run in the thread pool.
ProfileThreads == {1, 2}
\* total_watched_movies of the profile when the updates start
InitialWatched == {0, 10, 18}

\* profile_confidence in twentieths after an update that leaves n watched items
profile_confidence(n) ==
    IF n < 10 THEN 2 * n
    ELSE IF n < 20 THEN n ELSE 20

Profile(n) ==
    [total_watched_movies |-> n, profile_confidence |-> profile_confidence(n)]

NoUpdate == [pc |-> "idle", seen |-> 0]

ProfileAtRest ==
    /\ profile = [total_watched_movies |-> 0, profile_confidence |-> 0]
    /\ updating = [t \in ProfileThreads |-> NoUpdate]
    /\ committed = 0

\* ---------------------------------------------------- recommendations
PAGE_SIZE == 9
MAX_PAGES == 5
MAX_RECOMMENDATIONS == PAGE_SIZE * MAX_PAGES
SIMILAR_PAGE_SIZE == 12
TOP_ALL == 10

\* The search results of a content type, best first: result i has rank i.
Cand(ct, i) == [content_type |-> ct, tmdb_id |-> i]

\* the candidate loop of the single-type modes: stop at MAX_RECOMMENDATIONS
candidate_ids(ct, n) ==
    [i \in 1..Min(n, MAX_RECOMMENDATIONS) |-> Cand(ct, i)]

\* all search results in descending score order: equal ranks score equally, and
\* the stable sort leaves the movie before the tv show
ByScore ==
    [k \in 1..(2 * MaxRaw) |->
        Cand(IF k % 2 = 1 THEN "movie" ELSE "tv", (k + 1) \div 2)]

\* sort(key=score, reverse=True) of a list of candidates of the two types
sort_by_score(cands) ==
    LET listed(c) == c \in cands
    IN  SelectSeq(ByScore, listed)

SeqRange(seq) == {seq[i] : i \in DOMAIN seq}

\* the candidate loops of _get_emotion_based_recommendations_public_all: the
\* break leaves the loop of one type only
public_all_candidates(movies, tvs) ==
    LET m == Min(movies, MAX_RECOMMENDATIONS)
        t == IF tvs = 0 THEN 0 ELSE Min(tvs, Max(1, MAX_RECOMMENDATIONS - m))
    IN  sort_by_score({Cand("movie", i) : i \in 1..m} \cup {Cand("tv", i) : i \in 1..t})

\* the candidates of _get_hybrid_recommendations_all: no cut
hybrid_all_candidates(movies, tvs) ==
    sort_by_score({Cand("movie", i) : i \in 1..movies}
                  \cup {Cand("tv", i) : i \in 1..tvs})

clamp_page(page) ==
    Min(Max(page, 1), MAX_PAGES)

total_pages_of(total, page_size) ==
    Min((total + page_size - 1) \div page_size, MAX_PAGES)

\* _stable_page_enrich_single and _stable_page_enrich_mixed: the first page_size
\* candidates from index (page - 1) * page_size on whose details pass (the
\* chunks of DETAILS_FETCH_CHUNK only bound the look-ahead of one round)
stable_page_enrich(cands, page, page_size, failing) ==
    LET start == (clamp_page(page) - 1) * page_size
        passes(c) == c \notin failing
    IN  Take(SelectSeq(SubSeq(cands, start + 1, Len(cands)), passes), page_size)

Envelope(method, recs, total, page, page_size) ==
    [method |-> method, recommendations |-> recs, total |-> total, paginated |-> TRUE,
     page |-> page, page_size |-> page_size,
     total_pages |-> total_pages_of(total, page_size)]

\* get_emotion_based_recommendations for one content type
emotion_single(ct, page, n, failing) ==
    LET cands == candidate_ids(ct, n)
    IN  Envelope("current_emotion",
                 stable_page_enrich(cands, clamp_page(page), PAGE_SIZE, failing),
                 Len(cands), clamp_page(page), PAGE_SIZE)

\* _get_emotion_based_recommendations_all: the two pages merged, the best ten
emotion_all(page, counts, failing) ==
    LET movie == emotion_single("movie", page, counts["movie"], failing)
        tv == emotion_single("tv", page, counts["tv"], failing)
        top == Take(sort_by_score(SeqRange(movie.recommendations)
                                  \cup SeqRange(tv.recommendations)), TOP_ALL)
    IN  [method |-> "emotion_all", recommendations |-> top, total |-> Len(top),
         paginated |-> FALSE, page |-> 0, page_size |-> 0, total_pages |-> 0]

emotion_based_recommendations(ct, page, counts, failing) ==
    IF ct = "all" THEN emotion_all(page, counts, failing)
    ELSE emotion_single(ct, page, counts[ct], failing)

\* get_hybrid_recommendations and _get_hybrid_recommendations_all
hybrid_recommendations(ct, page, counts, failing, profiled) ==
    IF ct = "all"
    THEN IF ~profiled THEN emotion_all(page, counts, failing)
         ELSE LET cands == hybrid_all_candidates(counts["movie"], counts["tv"])
              IN  Envelope("hybrid_all",
                           stable_page_enrich(cands, clamp_page(page), PAGE_SIZE, failing),
                           Len(cands), clamp_page(page), PAGE_SIZE)
    ELSE IF ~profiled THEN emotion_single(ct, 1, counts[ct], failing)
         ELSE LET cands == candidate_ids(ct, counts[ct])
              IN  Envelope("hybrid",
                           stable_page_enrich(cands, clamp_page(page), PAGE_SIZE, failing),
                           Len(cands), clamp_page(page), PAGE_SIZE)

\* get_emotion_based_recommendations_public and its all-types variant
emotion_public(ct, page, page_size, counts, failing) ==
    IF ct = "all"
    THEN LET cands == public_all_candidates(counts["movie"], counts["tv"])
         IN  Envelope("emotion_public_all",
                      stable_page_enrich(cands, clamp_page(page), PAGE_SIZE, failing),
                      Len(cands), clamp_page(page), PAGE_SIZE)
    ELSE LET cands == candidate_ids(ct, counts[ct])
         IN  Envelope("emotion_public",
                      stable_page_enrich(cands, clamp_page(page), page_size, failing),
                      Len(cands), clamp_page(page), page_size)

NoEnvelope ==
    [op |-> "none", content_type |-> "none", requested_page |-> 0,
     data |-> [method |-> "none", recommendations |-> <<>>, total |-> 0,
               paginated |-> FALSE, page |-> 0, page_size |-> 0, total_pages |-> 0]]

RecsAtRest ==
    /\ raw = [ct \in ContentTypes |-> 0]
    /\ bad = {}
    /\ has_profile = FALSE
    /\ renv = NoEnvelope

\* ---------------------------------------------------------------------------
\* Page enrichment in detail: candidates carry their index score (in thousandths,
\* -1000..1000) and the clean records their similarity_score and rank
\* ---------------------------------------------------------------------------

DETAILS_FETCH_CHUNK == PAGE_SIZE * 2

\* Python's round() of n / d: to the nearest integer, a tie to the even one
round_half_even(n, d) ==
    LET q == n \div d
        r == n % d
    IN  IF 2 * r < d THEN q
        ELSE IF 2 * r > d THEN q + 1
        ELSE IF q % 2 = 0 THEN q ELSE q + 1

\* _build_clean_rec: similarity_score = round(score * 100), rank = len(clean) + 1
build_clean_rec(c, current_len) ==
    [tmdb_id |-> c.tmdb_id, content_type |-> c.content_type,
     similarity_score |-> round_half_even(c.score, 10), rank |-> current_len + 1]

\* the for loop over one chunk without its break
RECURSIVE append_chunk_no_break(_, _, _)
append_chunk_no_break(clean, results, page_size) ==
    IF results = <<>> THEN clean
    ELSE append_chunk_no_break(Append(clean, build_clean_rec(Head(results), Len(clean))),
                               Tail(results), page_size)

\* the for loop over the results of one chunk, in candidate order: append, and
\* break once the page is full
RECURSIVE append_chunk(_, _, _)
append_chunk(clean, results, page_size) ==
    IF results = <<>> THEN clean
    ELSE LET longer == Append(clean, build_clean_rec(Head(results), Len(clean)))
         IN  IF Len(longer) >= page_size THEN longer
             ELSE append_chunk(longer, Tail(results), page_size)

\* the while loop of _stable_page_enrich_single and _stable_page_enrich_mixed; i
\* counts from 0 as in the code
RECURSIVE enrich_from(_, _, _, _, _)
enrich_from(candidates, i, clean, page_size, failing) ==
    IF ~(i < Len(candidates) /\ Len(clean) < page_size) THEN clean
    ELSE LET end == Min(i + DETAILS_FETCH_CHUNK, Len(candidates))
             fetched_ok(c) == c.tmdb_id \notin failing
             results == SelectSeq(SubSeq(candidates, i + 1, end), fetched_ok)
         IN  enrich_from(candidates, end, append_chunk(clean, results, page_size),
                         page_size, failing)

stable_page_enrich_single(candidates, page, page_size, failing) ==
    enrich_from(candidates, (clamp_page(page) - 1) * page_size, <<>>, page_size, failing)

\* the scored candidate list: best first, the score falling by 85 thousandths per
\* place and never below -1
scored_candidates(n, top) ==
    [i \in 1..n |-> [tmdb_id |-> i, content_type |-> "movie",
                     score |-> Max(-1000, top - 85 * (i - 1))]]

NotFetched == <<[tmdb_id |-> 0]>>

EnrichAtRest ==
    /\ ecount = 0
    /\ etop = 0
    /\ invalid = {}
    /\ enriched = [p \in 1..MAX_PAGES |-> NotFetched]

\* ---------------------------------------------------------------------------
\* The Redis cache in front of the recommendation modes
\* ---------------------------------------------------------------------------

CachePages == 1..NumCachePages

\* the titles a request can name in a rating or in exclude_tmdb_ids
Ratable == 1..NumRatable

\* the candidate loop with its skip set (watched_tmdb_ids or exclude_ids)
candidate_ids_without(ct, n, skipped) ==
    LET kept(c) == c.tmdb_id \notin skipped
    IN  Take(SelectSeq([i \in 1..n |-> Cand(ct, i)], kept), MAX_RECOMMENDATIONS)

\* the envelope a single-type mode computes on a cache miss
computed_envelope(method, page, skipped) ==
    LET cands == candidate_ids_without("movie", CacheResults, skipped)
    IN  Envelope(method, stable_page_enrich(cands, clamp_page(page), PAGE_SIZE, {}),
                 Len(cands), clamp_page(page), PAGE_SIZE)

NoCached == [method |-> "miss"]

\* cache.get_json then compute and cache.set_json
through_cache(kind, page, fresh) ==
    IF rec_cache[kind][page] # NoCached THEN rec_cache[kind][page] ELSE fresh

NoResponse == [op |-> "none", page |-> 0, exclude |-> {}, data |-> NoCached]

CacheAtRest ==
    /\ rated = {}
    /\ rec_cache = [kind \in {"user", "public"} |-> [page \in CachePages |-> NoCached]]
    /\ cret = NoResponse

FinishAtRest ==
    /\ awaiting = {}
    /\ finished_sent = 0
    /\ top_saved = 0

RoomAtRest ==
    /\ status = "none"
    /\ creator_session_id = 0
    /\ max_participants = 0
    /\ participants = {}
    /\ ready = {}
    /\ interactions = EmptyBag
    /\ matches = EmptyBag
    /\ ret = NoRet

\* what the room handlers of one room leave alone
OthersAtRest ==
    CodesAtRest /\ IndexAtRest /\ ProfileAtRest /\ RecsAtRest /\ CacheAtRest
    /\ EnrichAtRest /\ FinishAtRest

OthersUnchanged ==
    UNCHANGED <<codeVars, indexVars, profileVars, recVars, cacheVars, enrichVars, finishVars>>

CodesOnly ==
    UNCHANGED <<roomVars, indexVars, profileVars, recVars, cacheVars, enrichVars, finishVars>>

IndexOnly ==
    UNCHANGED <<roomVars, codeVars, profileVars, recVars, cacheVars, enrichVars, finishVars>>

ProfileOnly ==
    UNCHANGED <<roomVars, codeVars, indexVars, recVars, cacheVars, enrichVars, finishVars>>

RecsOnly ==
    UNCHANGED <<roomVars, codeVars, indexVars, profileVars, cacheVars, enrichVars, finishVars>>

CacheOnly ==
    UNCHANGED <<roomVars, codeVars, indexVars, profileVars, recVars, enrichVars, finishVars>>

EnrichOnly ==
    UNCHANGED <<roomVars, codeVars, indexVars, profileVars, recVars, cacheVars, finishVars>>

FinishOnly ==
    UNCHANGED <<codeVars, indexVars, profileVars, recVars, cacheVars, enrichVars>>

\* _handle_swipe that announces matches only
swipe_messages_match_only(match, all_done, top) ==
    IF match # 0 THEN <<Msg("match_found", <<match>>)>> ELSE <<>>

\* the broadcasts of _handle_swipe and _finish_room_and_broadcast
swipe_messages(match, all_done, top) ==
    (IF match # 0 THEN <<Msg("match_found", <<match>>)>> ELSE <<>>)
    \o (IF all_done THEN <<Msg("voting_finished", top)>> ELSE <<>>)

Init ==
    /\ OthersAtRest
    /\ status = "none"
    /\ creator_session_id = 0
    /\ max_participants = 0
    /\ participants = {}
    /\ ready = {}
    /\ interactions = EmptyBag
    /\ matches = EmptyBag
    /\ ret = NoRet

create_room ==
    /\ status = "none"
    /\ \E c \in Creators, m \in MaxParticipantsChoices :
        /\ status' = WAITING
        /\ creator_session_id' = c
        /\ max_participants' = m
        /\ participants' = {c}
        /\ ret' = [NoRet EXCEPT !.op = "create_room", !.sid = c]
    /\ UNCHANGED <<ready, interactions, matches>>

join_or_rejoin_room ==
    /\ status # "none"
    /\ \E sid \in Sessions :
        LET err == join_error(status, participants, max_participants, sid)
        IN  /\ participants' = IF err = "none" THEN participants \cup {sid} ELSE participants
            /\ ret' = [NoRet EXCEPT !.op = "join_or_rejoin_room", !.sid = sid, !.err = err,
                         !.sent = IF err = "none" THEN <<Msg("user_joined", <<>>)>>
                                  ELSE <<>>,
                         !.to = IF err = "none"
                                THEN broadcast(participants \cup {sid})
                                ELSE {}]
    /\ UNCHANGED <<status, creator_session_id, max_participants, ready, interactions, matches>>

\* _handle_submit_mood: submit_mood, then start_voting_session when all are ready
submit_mood ==
    /\ status # "none"
    /\ \E sid \in participants, mood \in Moods :
        IF mood = ""
        THEN /\ ret' = [NoRet EXCEPT !.op = "submit_mood", !.sid = sid, !.err = "ignored"]
             /\ UNCHANGED <<status, ready>>
        ELSE LET rdy == ready \cup {sid}
             IN  /\ ready' = rdy
                 /\ status' = IF are_all_participants_ready(participants, rdy)
                              THEN VOTING ELSE status
                 /\ ret' = [NoRet EXCEPT !.op = "submit_mood", !.sid = sid,
                              !.sent = IF are_all_participants_ready(participants, rdy)
                                       THEN <<Msg("user_ready", <<>>),
                                              Msg("start_voting", <<>>)>>
                                       ELSE <<Msg("user_ready", <<>>)>>,
                              !.to = broadcast(participants)]
    /\ UNCHANGED <<creator_session_id, max_participants, participants, interactions, matches>>

\* _handle_swipe: record_swipe, then _finish_room_and_broadcast when all are done
record_swipe_on(tmdb_ids) ==
    /\ status # "none"
    /\ \E sid \in participants, tmdb \in tmdb_ids, act \in RoomAction :
        LET inter == record_interaction(interactions, sid, tmdb, act)
            positive == act \in {LIKE, SUPERLIKE}
            match == IF positive THEN check_for_match(inter, participants, tmdb) ELSE 0
            m1 == IF positive THEN matches_after_check(matches, inter, participants, tmdb)
                  ELSE matches
            all_done == have_all_participants_finished_swiping(status, participants, inter)
        IN  /\ interactions' = inter
            /\ IF all_done
               THEN \E top \in calculate_top_matches(inter) :
                        /\ RowsFit(m1, top)
                        /\ matches' = add_matches(m1, top)
                        /\ status' = FINISHED
                        /\ ret' = [NoRet EXCEPT !.op = "record_swipe", !.sid = sid,
                                     !.tmdb_id = tmdb, !.action = act, !.match = match,
                                     !.all_done = TRUE, !.top = top,
                                     !.sent = swipe_messages(match, TRUE, top),
                                     !.to = broadcast(participants)]
               ELSE /\ matches' = m1
                    /\ status' = status
                    /\ ret' = [NoRet EXCEPT !.op = "record_swipe", !.sid = sid,
                                 !.tmdb_id = tmdb, !.action = act, !.match = match,
                                 !.sent = swipe_messages(match, FALSE, <<>>),
                                 !.to = IF match # 0 THEN broadcast(participants)
                                        ELSE {}]
    /\ UNCHANGED <<creator_session_id, max_participants, participants, ready>>

record_swipe ==
    record_swipe_on(Titles)

force_start_voting ==
    /\ status # "none"
    /\ \E sid \in participants :
        LET err == force_start_error(creator_session_id, sid, status, participants, ready)
        IN  /\ status' = IF err = "none" THEN VOTING ELSE status
            /\ ret' = [NoRet EXCEPT !.op = "force_start_voting", !.sid = sid, !.err = err,
                         !.sent = IF err = "none" THEN <<Msg("start_voting", <<>>)>>
                                  ELSE <<Msg("error", <<>>)>>,
                         !.to = broadcast(participants)]
    /\ UNCHANGED <<creator_session_id, max_participants, participants, ready,
                   interactions, matches>>

force_finish_room ==
    /\ status # "none"
    /\ \E sid \in participants :
        LET err == force_finish_error(creator_session_id, sid, status)
        IN  IF err = "none"
            THEN \E top \in calculate_top_matches(interactions) :
                    /\ RowsFit(matches, top)
                    /\ matches' = add_matches(matches, top)
                    /\ status' = FINISHED
                    /\ ret' = [NoRet EXCEPT !.op = "force_finish_room", !.sid = sid,
                                 !.top = top,
                                 !.sent = <<Msg("voting_finished", top)>>,
                                 !.to = broadcast(participants)]
            ELSE /\ ret' = [NoRet EXCEPT !.op = "force_finish_room", !.sid = sid,
                              !.err = err, !.sent = <<Msg("error", <<>>)>>,
                              !.to = broadcast(participants)]
                 /\ UNCHANGED <<status, matches>>
    /\ UNCHANGED <<creator_session_id, max_participants, participants, ready, interactions>>

Next ==
    \/ create_room /\ OthersUnchanged
    \/ join_or_rejoin_room /\ OthersUnchanged
    \/ submit_mood /\ OthersUnchanged
    \/ record_swipe /\ OthersUnchanged
    \/ force_start_voting /\ OthersUnchanged
    \/ force_finish_room /\ OthersUnchanged

Spec == Init /\ [][Next]_vars

\* ------------------------------------------------- voting specification
\* A room of two ready participants that has just started voting.
InitVote ==
    /\ OthersAtRest
    /\ status = VOTING
    /\ creator_session_id = 1
    /\ max_participants = 2
    /\ participants = {1, 2}
    /\ ready = {1, 2}
    /\ interactions = EmptyBag
    /\ matches = EmptyBag
    /\ ret = NoRet

vote_swipe ==
    record_swipe_on(1..VoteTitles)

NextVote ==
    \/ vote_swipe /\ OthersUnchanged
    \/ force_finish_room /\ OthersUnchanged

SpecVote == InitVote /\ [][NextVote]_vars

\* ------------------------------------------------ ranking specification
\* A voting room in which session 1 has swiped any of the titles 1..TopTitles
\* with like or superlike and session 2 has swiped title 1 or nothing.
TopChoices == {"none", LIKE, SUPERLIKE}

PatternBag(f) ==
    SetToBag({Row(1, t, f[t]) : t \in {u \in DOMAIN f : f[u] # "none"}})

InitTop ==
    /\ OthersAtRest
    /\ status = VOTING
    /\ creator_session_id = 1
    /\ max_participants = 2
    /\ participants = {1, 2}
    /\ ready = {1, 2}
    /\ matches = EmptyBag
    /\ ret = NoRet
    /\ \E f \in [1..TopTitles -> TopChoices] :
         \/ interactions = PatternBag(f)
         \/ \E a \in RoomAction :
                interactions = PatternBag(f) (+) SetToBag({Row(2, 1, a)})

NextTop ==
    force_finish_room /\ OthersUnchanged

SpecTop == InitTop /\ [][NextTop]_vars

\* ---------------------------------------------- room code specification
\* POST /rooms (routers/room.py create_room, a plain def) runs create_room in a
\* pool thread: the queries of _generate_unique_code and the INSERT of
\* create_room are separate round trips, interleaved with other requests'.
TerminalCall == {"idle", "created", "invalid_room_action", "integrity_error"}

create_room_begin(t) ==
    /\ creating[t].pc \in TerminalCall
    /\ creating' = [creating EXCEPT ![t] = [NoCall EXCEPT !.pc = "generate"]]
    /\ UNCHANGED rooms

\* one pass of the loop of _generate_unique_code
generate_unique_code_attempt(t) ==
    /\ creating[t].pc = "generate"
    /\ creating[t].tries < MaxCodeAttempts
    /\ \E code \in Codes :
        LET c == creating[t]
            tries == c.tries + 1
        IN  creating' = [creating EXCEPT ![t] =
                IF ~code_exists(rooms, code)
                THEN [c EXCEPT !.pc = "insert", !.tries = tries, !.code = code]
                ELSE [c EXCEPT !.tries = tries, !.collided = c.collided + 1,
                               !.pc = IF tries = MaxCodeAttempts
                                      THEN "invalid_room_action" ELSE "generate"]]
    /\ UNCHANGED rooms

\* db.add(room); db.commit() of create_room
insert_room(t) ==
    /\ creating[t].pc = "insert"
    /\ LET code == creating[t].code
       IN  IF code_taken(rooms, code)
           THEN /\ creating' = [creating EXCEPT ![t].pc = "integrity_error"]
                /\ UNCHANGED rooms
           ELSE /\ CopiesIn(RoomRow(code, WAITING), rooms) < MaxRoomsPerCode
                /\ rooms' = rooms (+) SetToBag({RoomRow(code, WAITING)})
                /\ creating' = [creating EXCEPT ![t].pc = "created"]

\* the room's lifecycle of Spec, seen from the rooms table: a room finishes
finish_room ==
    /\ \E r \in BagToSet(rooms) :
        /\ r.status # FINISHED
        /\ CopiesIn(RoomRow(r.code, FINISHED), rooms) < MaxRoomsPerCode
        /\ rooms' = (rooms (-) SetToBag({r})) (+) SetToBag({RoomRow(r.code, FINISHED)})
    /\ UNCHANGED creating

NextCodes ==
    \/ \E t \in CodeThreads : create_room_begin(t) /\ CodesOnly
    \/ \E t \in CodeThreads : generate_unique_code_attempt(t) /\ CodesOnly
    \/ \E t \in CodeThreads : insert_room(t) /\ CodesOnly
    \/ finish_room /\ CodesOnly

SpecCodes == Init /\ [][NextCodes]_vars

\* --------------------------------------------------- index specification
\* The operations of one EmbeddingService and the ingestion runs that feed it.
SetIndex(idx) ==
    /\ Len(idx.content_data) <= MaxIndexRows
    /\ vectors' = idx.vectors
    /\ content_data' = idx.content_data

add_content ==
    /\ \E item \in TmdbItems :
        /\ SetIndex(add_content_with_details(Index(vectors, content_data), item))
        /\ iret' = [NoIRet EXCEPT !.op = "add_content",
                       !.content_type = item.content_type, !.ok = add_ok(item)]
    /\ UNCHANGED <<last_page, fetched>>

search_similar_content ==
    /\ \E ct \in ContentTypes \cup {"any"} :
        iret' = [NoIRet EXCEPT !.op = "search_similar_content", !.content_type = ct,
                   !.ok = TRUE,
                   !.results = search_hits(Index(vectors, content_data), 1, ct)]
    /\ UNCHANGED <<vectors, content_data, last_page, fetched>>

\* details is what TMDB returns for the key: nothing, or the item
get_content_embedding ==
    /\ \E ct \in ContentTypes, id \in Items :
        IF find_content(content_data, ct, id)
        THEN /\ iret' = [NoIRet EXCEPT !.op = "get_content_embedding",
                            !.content_type = ct, !.ok = TRUE]
             /\ UNCHANGED <<vectors, content_data>>
        ELSE \/ /\ iret' = [NoIRet EXCEPT !.op = "get_content_embedding",
                               !.content_type = ct]
                /\ UNCHANGED <<vectors, content_data>>
             \/ \E details \in {it \in TmdbItems : Key(it) = <<ct, id>>} :
                /\ SetIndex(cache_content(Index(vectors, content_data), details))
                /\ iret' = [NoIRet EXCEPT !.op = "get_content_embedding",
                               !.content_type = ct, !.ok = details.text]
    /\ UNCHANGED <<last_page, fetched>>

\* the results TMDB can return for one popular page of a content type
PageResults(ct) ==
    {<<>>} \cup {<<it>> : it \in {x \in TmdbItems : x.content_type = ct}}

\* the responses TMDB can give to the requests of one run
PopularFeeds(ct, start_page, end_page) ==
    [start_page..end_page -> PageResults(ct)]

NoResultFeeds(ct, start_page, end_page) ==
    {[page \in start_page..end_page |-> <<>>]}

bulk_populate_popular ==
    /\ \E ct \in ContentTypes, start_page \in 1..NumPages, end_page \in 1..NumPages :
        /\ start_page <= end_page
        /\ \E feed \in PopularFeeds(ct, start_page, end_page) :
            LET idx == ingest_pages(Index(vectors, content_data), start_page,
                                    end_page, feed)
            IN  /\ SetIndex(idx)
                /\ iret' = [NoIRet EXCEPT !.op = "bulk_populate_popular",
                               !.content_type = ct, !.ok = TRUE,
                               !.start_page = start_page, !.end_page = end_page,
                               !.ivf_optimized = optimize_index_if_large(idx)]
    /\ UNCHANGED <<last_page, fetched>>

\* continue_bulk_popular: read the cursor, bulk_populate_popular, store the cursor
continue_bulk_popular_on(batches, with_results, page_cap) ==
    \E ct \in ContentTypes, batch_pages \in batches :
        LET start_page == start_page_of(last_page[ct])
            end_page == end_page_of(start_page, batch_pages)
        IN  /\ end_page <= page_cap
            /\ \E feed \in IF with_results
                             THEN PopularFeeds(ct, start_page, end_page)
                             ELSE NoResultFeeds(ct, start_page, end_page) :
                LET idx == ingest_pages(Index(vectors, content_data), start_page,
                                        end_page, feed)
                IN  /\ SetIndex(idx)
                    /\ iret' = [NoIRet EXCEPT !.op = "continue_bulk_popular",
                                   !.content_type = ct, !.ok = TRUE,
                                   !.cursor = last_page[ct],
                                   !.batch_pages = batch_pages,
                                   !.start_page = start_page, !.end_page = end_page,
                                   !.ivf_optimized = optimize_index_if_large(idx)]
            /\ last_page' = [last_page EXCEPT ![ct] = end_page]
            /\ fetched' = [fetched EXCEPT ![ct] = @ \cup (start_page..end_page)]

continue_bulk_popular ==
    continue_bulk_popular_on({1, 2}, TRUE, NumPages)

NextIndex ==
    \/ add_content /\ IndexOnly
    \/ search_similar_content /\ IndexOnly
    \/ get_content_embedding /\ IndexOnly

SpecIndex == Init /\ [][NextIndex]_vars

\* ------------------------------------------------ populate specification
\* Ingestion runs only: the admin endpoints and the scheduler's job.
NextPopulate ==
    \/ bulk_populate_popular /\ IndexOnly
    \/ continue_bulk_popular /\ IndexOnly

SpecPopulate == Init /\ [][NextPopulate]_vars

\* ----------------------------------------------- ingestion specification
\* The scheduler's and the endpoint's continue_bulk_popular runs up to the last
\* popular page, over a popular feed without results.
IngestBatches == {60, 100}

ingest_continue ==
    continue_bulk_popular_on(IngestBatches, FALSE, MAX_POPULAR_PAGE)

NextIngest ==
    ingest_continue /\ IndexOnly

SpecIngest == Init /\ [][NextIngest]_vars
\* ----------------------------------------- recommendation specification
\* One user, one emotion text: the searches return raw[ct] results per content
\* type, of which the candidates in bad fail enrichment; any mode is called with
\* any page.
RequestTypes == {"movie", "tv", "all"}
RequestPages == (-1)..(MAX_PAGES + 2)
BadChoices ==
    {{}, {Cand(ct, i) : ct \in ContentTypes, i \in {j \in 1..MaxRaw : j % 3 = 0}}}

InitRecs ==
    /\ RoomAtRest
    /\ CodesAtRest
    /\ IndexAtRest
    /\ ProfileAtRest
    /\ CacheAtRest
    /\ EnrichAtRest
    /\ FinishAtRest
    /\ \E m \in 0..MaxRaw, t \in {0, MaxRaw} :
         raw = [ct \in ContentTypes |-> IF ct = "movie" THEN m ELSE t]
    /\ bad \in BadChoices
    /\ has_profile \in BOOLEAN
    /\ renv = NoEnvelope

Returned(op, ct, page, data) ==
    [op |-> op, content_type |-> ct, requested_page |-> page, data |-> data]

\* page is validated by the request schema (ge=1)
get_emotion_based_recommendations ==
    /\ \E ct \in RequestTypes, page \in {p \in RequestPages : p >= 1} :
        renv' = Returned("current_emotion", ct, page,
                         emotion_based_recommendations(ct, page, raw, bad))
    /\ UNCHANGED <<raw, bad, has_profile>>

get_hybrid_recommendations ==
    /\ \E ct \in RequestTypes, page \in RequestPages :
        renv' = Returned("hybrid", ct, page,
                         hybrid_recommendations(ct, page, raw, bad, has_profile))
    /\ UNCHANGED <<raw, bad, has_profile>>

get_emotion_based_recommendations_public ==
    /\ \E ct \in RequestTypes, page \in RequestPages,
          page_size \in {PAGE_SIZE, SIMILAR_PAGE_SIZE} :
        renv' = Returned("emotion_public", ct, page,
                         emotion_public(ct, page, page_size, raw, bad))
    /\ UNCHANGED <<raw, bad, has_profile>>

NextRecs ==
    \/ get_emotion_based_recommendations /\ RecsOnly
    \/ get_hybrid_recommendations /\ RecsOnly
    \/ get_emotion_based_recommendations_public /\ RecsOnly

SpecRecs == InitRecs /\ [][NextRecs]_vars

\* ------------------------------------------------------------ properties
Positive == {LIKE, SUPERLIKE}

HasPositive(sid, tmdb) ==
    \E r \in BagToSet(interactions) :
        r.session_id = sid /\ r.tmdb_id = tmdb /\ r.action \in Positive

\* C1: a room's status only moves forward along waiting -> voting -> finished;
\* no step takes it from voting to waiting or from finished to voting or waiting.
C1_StatusOnlyForward ==
    [][/\ ~(status = VOTING /\ status' = WAITING)
       /\ ~(status = FINISHED /\ status' \in {WAITING, VOTING})]_vars

SwipedBy(inter, sid) ==
    {t \in {r.tmdb_id : r \in BagToSet(inter)} :
        \E r \in BagToSet(inter) : r.session_id = sid /\ r.tmdb_id = t}

UnionSwiped(inter, parts) ==
    {t \in {r.tmdb_id : r \in BagToSet(inter)} : \E p \in parts : t \in SwipedBy(inter, p)}

EveryoneSwipedUnion(inter, parts) ==
    /\ UnionSwiped(inter, parts) # {}
    /\ \A p \in parts : UnionSwiped(inter, parts) \subseteq SwipedBy(inter, p)

ClaimScore(tmdb) ==
    3 * Cardinality({r \in BagToSet(interactions) : r.tmdb_id = tmdb /\ r.action = SUPERLIKE})
    + Cardinality({r \in BagToSet(interactions) : r.tmdb_id = tmdb /\ r.action = LIKE})

ScoredTitles ==
    {t \in {r.tmdb_id : r \in BagToSet(interactions)} : ClaimScore(t) > 0}

\* C4: a successful force_finish returns, in descending score order and without
\* repetition, min(5, n) of the n titles with a positive score (3 per superlike,
\* 1 per like, 0 per dislike), no left-out title scores higher than a returned
\* one, and every returned title is stored as a RoomMatch row.
C4_TopMatchesByWeightedScore ==
    (ret.op = "force_finish_room" /\ ret.err = "none") =>
        LET top == ret.top
        IN  /\ Len(top) = Min(5, Cardinality(ScoredTitles))
            /\ \A i \in DOMAIN top : top[i] \in ScoredTitles /\ BagIn(top[i], matches)
            /\ \A i, j \in DOMAIN top : i < j =>
                  top[i] # top[j] /\ ClaimScore(top[i]) >= ClaimScore(top[j])
            /\ \A t \in ScoredTitles \ {top[i] : i \in DOMAIN top} :
                  \A i \in DOMAIN top : ClaimScore(top[i]) >= ClaimScore(t)

C4_Witness ==
    /\ ret.op = "force_finish_room"
    /\ ret.err = "none"
    /\ Len(ret.top) = 5
    /\ Cardinality(ScoredTitles) = 6
    /\ ClaimScore(ret.top[1]) = 4
    /\ ClaimScore(ret.top[5]) = 1

\* C5: a room has at most one RoomMatch row per tmdb_id.
C5_OneMatchRowPerTitle ==
    \A t \in DOMAIN matches : matches[t] <= 1

SameKey(r, q) ==
    r.session_id = q.session_id /\ r.tmdb_id = q.tmdb_id

\* C6: there is at most one RoomInteraction per (session, tmdb_id), a stored
\* interaction is never changed or removed by a later swipe, and the first swipe
\* of a session on a title stores the action it was sent with.
C6_FirstWriteWins ==
    [][/\ \A r \in BagToSet(interactions') :
              /\ interactions'[r] = 1
              /\ \A q \in BagToSet(interactions') : SameKey(r, q) => q = r
       /\ \A r \in BagToSet(interactions) : r \in BagToSet(interactions')
       /\ (/\ ret'.op = "record_swipe"
           /\ ~\E r \in BagToSet(interactions) :
                   r.session_id = ret'.sid /\ r.tmdb_id = ret'.tmdb_id)
          => [session_id |-> ret'.sid, tmdb_id |-> ret'.tmdb_id, action |-> ret'.action]
                \in BagToSet(interactions')]_vars

C6_Witness ==
    /\ ret.op = "record_swipe"
    /\ \E r \in BagToSet(interactions) :
          r.session_id = ret.sid /\ r.tmdb_id = ret.tmdb_id /\ r.action # ret.action

\* C7: a join of a voting room by a session that is not a participant fails
\* with RoomAlreadyStarted and leaves the participants unchanged.
C7_LateJoinRejected ==
    [][(ret'.op = "join_or_rejoin_room" /\ ret'.sid \notin participants /\ status = VOTING)
          => (ret'.err = "RoomAlreadyStarted" /\ participants' = participants)]_vars

C7_Witness ==
    /\ ret.op = "join_or_rejoin_room"
    /\ ret.err = "RoomAlreadyStarted"
    /\ ret.sid \notin participants
    /\ status = VOTING

\* C8: a join of a waiting room by a new session adds the session when the room
\* has fewer than max_participants participants; otherwise it fails with
\* RoomFull and leaves the participants unchanged.
C8_JoinWaitingRoom ==
    [][(ret'.op = "join_or_rejoin_room" /\ ret'.sid \notin participants /\ status = WAITING)
          => IF Cardinality(participants) < max_participants
             THEN ret'.err = "none" /\ participants' = participants \cup {ret'.sid}
             ELSE ret'.err = "RoomFull" /\ participants' = participants]_vars

C8_Witness ==
    /\ ret.op = "join_or_rejoin_room"
    /\ ret.err = "RoomFull"
    /\ ret.sid \notin participants
    /\ Cardinality(participants) = max_participants

InitProfile ==
    /\ RoomAtRest
    /\ CodesAtRest
    /\ IndexAtRest
    /\ RecsAtRest
    /\ CacheAtRest
    /\ EnrichAtRest
    /\ FinishAtRest
    /\ \E n \in InitialWatched : profile = Profile(n)
    /\ updating = [t \in ProfileThreads |-> NoUpdate]
    /\ committed = 0

Started ==
    committed + Cardinality({t \in ProfileThreads : updating[t].pc = "loaded"})

\* _get_or_create_user_profile: the session loads the row
update_load(t) ==
    /\ updating[t].pc = "idle"
    /\ Started < MaxUpdates
    /\ updating' = [updating EXCEPT ![t] =
                      [pc |-> "loaded", seen |-> profile.total_watched_movies]]
    /\ UNCHANGED <<profile, committed>>

\* the rest of update_user_emotion_profile_realtime: no embedding and return
\* False, or _update_profile_embedding, profile_confidence and db.commit()
update_commit(t) ==
    /\ updating[t].pc = "loaded"
    /\ updating' = [updating EXCEPT ![t] = NoUpdate]
    /\ \E content_embedding \in BOOLEAN :
        IF content_embedding
        THEN /\ profile' = Profile(updating[t].seen + 1)
             /\ committed' = committed + 1
        ELSE UNCHANGED <<profile, committed>>

NextProfile ==
    \/ \E t \in ProfileThreads : update_load(t) /\ ProfileOnly
    \/ \E t \in ProfileThreads : update_commit(t) /\ ProfileOnly

SpecProfile == InitProfile /\ [][NextProfile]_vars

\* C11: no two rooms that are not finished have the same code, whatever the
\* interleaving of create calls; a create call draws at most 10 candidate codes
\* and fails with InvalidRoomAction exactly when all 10 collided with a room
\* that is not finished.
NonFinishedWithCode(code) ==
    CopiesIn(RoomRow(code, WAITING), rooms) + CopiesIn(RoomRow(code, VOTING), rooms)

C11_CodeUniqueAmongNonFinished ==
    /\ \A code \in Codes : NonFinishedWithCode(code) <= 1
    /\ \A t \in CodeThreads :
        /\ creating[t].tries <= 10
        /\ creating[t].pc = "invalid_room_action" <=> creating[t].collided = 10

C11_Witness ==
    /\ \A code \in Codes : NonFinishedWithCode(code) = 1
    /\ \E t, u \in CodeThreads :
        /\ creating[t].pc = "invalid_room_action"
        /\ creating[u].pc = "integrity_error"

\* C12: in a voting room, a swipe that makes all_done true leaves the room
\* finished and broadcasts a voting_finished message whose matches are the top
\* titles by weighted score (3 per superlike, 1 per like): at most 5, without
\* repetition, in descending score order, none left out that scores higher.
VotingFinishedSent ==
    {i \in DOMAIN ret.sent : ret.sent[i].type = "voting_finished"}

C12_AllDoneFinishesAndBroadcasts ==
    [][(status = VOTING /\ ret'.op = "record_swipe" /\ ret'.all_done) =>
        /\ status' = FINISHED
        /\ \E i \in DOMAIN ret'.sent :
            /\ ret'.sent[i].type = "voting_finished"
            /\ LET top == ret'.sent[i].tmdb_ids
                   Score(t) ==
                     3 * Cardinality({r \in BagToSet(interactions') :
                                        r.tmdb_id = t /\ r.action = SUPERLIKE})
                     + Cardinality({r \in BagToSet(interactions') :
                                        r.tmdb_id = t /\ r.action = LIKE})
                   Scored == {t \in {r.tmdb_id : r \in BagToSet(interactions')} :
                                Score(t) > 0}
               IN  /\ Len(top) = Min(5, Cardinality(Scored))
                   /\ \A j \in DOMAIN top : top[j] \in Scored
                   /\ \A j, k \in DOMAIN top : j < k =>
                         top[j] # top[k] /\ Score(top[j]) >= Score(top[k])
                   /\ \A t \in Scored \ {top[j] : j \in DOMAIN top} :
                         \A j \in DOMAIN top : Score(top[j]) >= Score(t)]_vars

C12_Witness ==
    /\ ret.op = "record_swipe"
    /\ ret.all_done
    /\ status = FINISHED
    /\ Cardinality(participants) = 2
    /\ \E i \in VotingFinishedSent :
        /\ Len(ret.sent[i].tmdb_ids) = 2
        /\ ClaimScore(ret.sent[i].tmdb_ids[1]) > ClaimScore(ret.sent[i].tmdb_ids[2])

\* C13: the index holds as many vectors as payload rows, before and after every
\* EmbeddingService operation (add, search, get_content_embedding).
C13_VectorsMatchPayloads ==
    Len(vectors) = Len(content_data)

\* C14: no payload row of the index has a vote_average below 6.0 (60 tenths).
C14_NoLowRatedStored ==
    \A i \in DOMAIN content_data : content_data[i].vote_average >= 60

\* C15: after any sequence of ingestion runs the index holds one row per
\* ingested (content_type, tmdb_id), also when an item is presented twice.
C15_OneRowPerKey ==
    \A i, j \in DOMAIN content_data :
        (content_data[i].content_type = content_data[j].content_type
         /\ content_data[i].tmdb_id = content_data[j].tmdb_id) => i = j

C17_ConfidenceIsWatchedOver20 ==
    profile.profile_confidence = Min(20, profile.total_watched_movies)

\* C18: overlapping updates of one user's profile are serialized: the profile's
\* watched count has grown by one for every update that returned True.
C18_UpdatesSerialized ==
    [][committed' = committed + 1 =>
        profile'.total_watched_movies = profile.total_watched_movies + 1]_vars

\* C19: every envelope returned by a paginated mode with total T carries
\* total_pages = min(ceil(T / 9), 5) and a page in 1..5, whatever page was asked.
C19_TotalPagesAndPageRange ==
    renv.op # "none" =>
        /\ renv.data.paginated
        /\ renv.data.total_pages = Min((renv.data.total + 8) \div 9, 5)
        /\ renv.data.page \in 1..5

\* C20: for a user without a profile embedding, hybrid returns for every page
\* 1..5 the recommendations, in the same order and for the same page, that
\* current_emotion returns for that page.
C20_HybridFallsBackToCurrentEmotion ==
    (renv.op = "hybrid" /\ ~has_profile /\ renv.requested_page \in 1..5) =>
        LET current == emotion_based_recommendations(renv.content_type,
                                                     renv.requested_page, raw, bad)
        IN  /\ renv.data.recommendations = current.recommendations
            /\ renv.data.page = current.page

\* ---------------------------------------------------------------------------
\* Cached recommendation requests of one user and of anonymous callers, for one
\* emotion text and the content type movie
\* ---------------------------------------------------------------------------

Responded(op, page, exclude, data) ==
    [op |-> op, page |-> page, exclude |-> exclude, data |-> data]

\* POST /movies/rate: UserRatingRepository.create_or_update_rating
create_or_update_rating ==
    /\ \E id \in Ratable : rated' = rated \cup {id}
    /\ cret' = NoResponse
    /\ UNCHANGED rec_cache

\* get_emotion_based_recommendations with its cache key rec:emotion:...:p{page}
cached_emotion_based_recommendations ==
    \E page \in CachePages, stored \in BOOLEAN :
        LET data == through_cache("user", page,
                                  computed_envelope("current_emotion", page, rated))
        IN  /\ cret' = Responded("current_emotion", page, {}, data)
            /\ rec_cache' = IF stored
                             THEN [rec_cache EXCEPT !["user"][page] = data]
                             ELSE rec_cache
            /\ UNCHANGED rated

\* get_emotion_based_recommendations_public with its cache key
\* rec:public:emotion:...:p{page}:sz{page_size}
cached_emotion_based_recommendations_public ==
    \E page \in CachePages, exclude \in SUBSET Ratable, stored \in BOOLEAN :
        LET data == through_cache("public", page,
                                  computed_envelope("emotion_public", page, exclude))
        IN  /\ cret' = Responded("emotion_public", page, exclude, data)
            /\ rec_cache' = IF stored
                             THEN [rec_cache EXCEPT !["public"][page] = data]
                             ELSE rec_cache
            /\ UNCHANGED rated

\* the TTL of a key runs out (300 s and 600 s)
cache_expire ==
    /\ \E kind \in {"user", "public"}, page \in CachePages :
        /\ rec_cache[kind][page] # NoCached
        /\ rec_cache' = [rec_cache EXCEPT ![kind][page] = NoCached]
    /\ cret' = NoResponse
    /\ UNCHANGED rated

NextCache ==
    \/ create_or_update_rating /\ CacheOnly
    \/ cached_emotion_based_recommendations /\ CacheOnly
    \/ cached_emotion_based_recommendations_public /\ CacheOnly
    \/ cache_expire /\ CacheOnly

SpecCache == Init /\ [][NextCache]_vars

returned_ids == {cret.data.recommendations[i].tmdb_id : i \in DOMAIN cret.data.recommendations}

\* C21: no title in a current_emotion response is one the user has rated when the
\* response is returned, whether the envelope was computed or came from the cache
C21_NoRatedTitleReturned ==
    cret.op = "current_emotion" => returned_ids \cap rated = {}

\* C22: no title in an emotion_public response is in the exclude set of that call,
\* whatever exclude sets earlier calls with the same key had
C22_NoExcludedTitleReturned ==
    cret.op = "emotion_public" => returned_ids \cap cret.exclude = {}

sent_errors == {i \in DOMAIN ret.sent : ret.sent[i].type = "error"}

\* C23: when a room operation of one client fails with a state-machine error, the
\* error frame goes to that client's connection only
C23_ErrorToOffenderOnly ==
    (ret.err \notin {"none", "ignored"} /\ sent_errors # {}) => ret.to \subseteq {ret.sid}

\* ---------------------------------------------------------------------------
\* Page enrichment of one candidate list, page by page
\* ---------------------------------------------------------------------------

TopScores == {1000, 400}

InitEnrich ==
    /\ RoomAtRest
    /\ CodesAtRest
    /\ IndexAtRest
    /\ ProfileAtRest
    /\ RecsAtRest
    /\ CacheAtRest
    /\ FinishAtRest
    /\ ecount \in 0..EnrichCands
    /\ etop \in TopScores
    /\ invalid \in {a..b : a \in 1..(ecount + 1), b \in 0..ecount}
    /\ enriched = [p \in 1..MAX_PAGES |-> NotFetched]

\* one call of _stable_page_enrich_single for a requested page
enrich_page ==
    /\ \E page \in RequestPages :
        enriched' = [enriched EXCEPT ![clamp_page(page)] =
                        stable_page_enrich_single(scored_candidates(ecount, etop), page,
                                                  PAGE_SIZE, invalid)]
    /\ UNCHANGED <<ecount, etop, invalid>>

NextEnrich == enrich_page /\ EnrichOnly

SpecEnrich == InitEnrich /\ [][NextEnrich]_vars

FetchedPages == {p \in 1..MAX_PAGES : enriched[p] # NotFetched}

\* C24: every clean record has similarity_score = round(score * 100), between 0
\* and 100
C24_SimilarityScoreInRange ==
    \A p \in FetchedPages : \A j \in DOMAIN enriched[p] :
        LET rec == enriched[p][j]
            index_score == scored_candidates(ecount, etop)[rec.tmdb_id].score
        IN  /\ rec.similarity_score = round_half_even(index_score, 10)
            /\ rec.similarity_score \in 0..100

\* the valid candidates from the offset of page p on, in candidate order
valid_from(p) ==
    LET valid(c) == c.tmdb_id \notin invalid
    IN  SelectSeq(SubSeq(scored_candidates(ecount, etop), (p - 1) * PAGE_SIZE + 1, ecount),
                  valid)

\* C25: a page is exactly the first min(PAGE_SIZE, v) valid candidates from its
\* offset on, in candidate order, ranked 1..n
C25_PageIsFirstValidCandidates ==
    \A p \in FetchedPages :
        LET expected == Take(valid_from(p), PAGE_SIZE)
        IN  /\ Len(enriched[p]) = Len(expected)
            /\ \A j \in DOMAIN expected :
                    /\ enriched[p][j].tmdb_id = expected[j].tmdb_id
                    /\ enriched[p][j].rank = j

\* a full page whose last title lies beyond the first chunk of the page
C25_Witness ==
    \E p \in FetchedPages :
        /\ Len(enriched[p]) = PAGE_SIZE
        /\ enriched[p][PAGE_SIZE].tmdb_id > (p - 1) * PAGE_SIZE + DETAILS_FETCH_CHUNK

ids_of(clean) == {clean[j].tmdb_id : j \in DOMAIN clean}

\* C26: the pages of one candidate list for two different page numbers share no
\* title
C26_PagesShareNoTitle ==
    \A p, q \in FetchedPages : p # q => ids_of(enriched[p]) \cap ids_of(enriched[q]) = {}

\* C27: a room never has more participants than its max_participants, whatever
\* the order in which the joins of the sessions are processed
C27_ParticipantsWithinMax ==
    status # "none" => Cardinality(participants) <= max_participants

\* a join has just filled the room
C27_Witness ==
    /\ ret.op = "join_or_rejoin_room"
    /\ ret.err = "none"
    /\ ret.sid # creator_session_id
    /\ ret.sid \in participants
    /\ Cardinality(participants) = max_participants

\* C28: a record_swipe on a room that is not voting (waiting or finished) creates
\* no RoomInteraction and no RoomMatch
C28_SwipeOnlyWhileVoting ==
    [][(ret'.op = "record_swipe" /\ status # VOTING)
          => (interactions' = interactions /\ matches' = matches)]_vars

\* ---------------------------------------------------------------------------
\* The end of voting with the awaits of the handlers: a voting room of two
\* connected participants. The handlers of different connections run on one event
\* loop and change places at an await only; each connection has its own database
\* session for its whole life.
\* ---------------------------------------------------------------------------

\* _handle_swipe up to its first await: record_swipe, and when all are done and
\* there is no match to announce, _finish_room_and_broadcast at once
handle_swipe ==
    /\ finished_sent < MaxFinishes
    /\ \E sid \in participants \ awaiting, tmdb \in 1..VoteTitles, act \in RoomAction :
        LET inter == record_interaction(interactions, sid, tmdb, act)
            positive == act \in {LIKE, SUPERLIKE}
            match == IF positive THEN check_for_match(inter, participants, tmdb) ELSE 0
            m1 == IF positive THEN matches_after_check(matches, inter, participants, tmdb)
                  ELSE matches
            all_done == have_all_participants_finished_swiping(status, participants, inter)
        IN  /\ interactions' = inter
            /\ ret' = [NoRet EXCEPT !.op = "record_swipe", !.sid = sid, !.tmdb_id = tmdb,
                         !.action = act, !.match = match, !.all_done = all_done]
            /\ IF all_done /\ match # 0
               THEN /\ awaiting' = awaiting \cup {sid}
                    /\ matches' = m1
                    /\ UNCHANGED <<status, finished_sent, top_saved>>
               ELSE IF all_done
               THEN /\ \E top \in calculate_top_matches(inter) :
                        /\ matches' = add_matches(m1, top)
                        /\ top_saved' = IF top = <<>> THEN top_saved ELSE top_saved + 1
                    /\ status' = FINISHED
                    /\ finished_sent' = finished_sent + 1
                    /\ UNCHANGED awaiting
               ELSE /\ matches' = m1
                    /\ UNCHANGED <<status, awaiting, finished_sent, top_saved>>
    /\ UNCHANGED <<creator_session_id, max_participants, participants, ready>>

\* the status that _finish_room_and_broadcast reads after the await: the Room
\* instance of the connection's session still holds the status that record_swipe
\* loaded, because a query does not overwrite the loaded attributes of an instance
\* in the session's identity map and the session has not committed since
status_seen_after_await(current) == VOTING

\* _handle_swipe after the match_found broadcast: _finish_room_and_broadcast
finish_room_and_broadcast ==
    /\ finished_sent < MaxFinishes
    /\ \E sid \in awaiting :
        /\ awaiting' = awaiting \ {sid}
        /\ ret' = [NoRet EXCEPT !.op = "finish_room_and_broadcast", !.sid = sid]
        /\ IF status_seen_after_await(status) # VOTING
           THEN UNCHANGED <<status, matches, finished_sent, top_saved>>
           ELSE /\ \E top \in calculate_top_matches(interactions) :
                    /\ matches' = add_matches(matches, top)
                    /\ top_saved' = IF top = <<>> THEN top_saved ELSE top_saved + 1
                /\ status' = FINISHED
                /\ finished_sent' = finished_sent + 1
    /\ UNCHANGED <<creator_session_id, max_participants, participants, ready, interactions>>

\* _handle_force_finish up to its first await
handle_force_finish ==
    /\ finished_sent < MaxFinishes
    /\ \E sid \in participants \ awaiting :
        LET err == force_finish_error(creator_session_id, sid, status)
        IN  /\ ret' = [NoRet EXCEPT !.op = "force_finish_room", !.sid = sid, !.err = err]
            /\ IF err = "none"
               THEN /\ \E top \in calculate_top_matches(interactions) :
                        /\ matches' = add_matches(matches, top)
                        /\ top_saved' = IF top = <<>> THEN top_saved ELSE top_saved + 1
                    /\ status' = FINISHED
                    /\ finished_sent' = finished_sent + 1
               ELSE UNCHANGED <<status, matches, finished_sent, top_saved>>
    /\ UNCHANGED <<creator_session_id, max_participants, participants, ready, interactions,
                   awaiting>>

NextFinish ==
    \/ handle_swipe /\ FinishOnly
    \/ finish_room_and_broadcast /\ FinishOnly
    \/ handle_force_finish /\ FinishOnly

SpecFinish == InitVote /\ [][NextFinish]_vars

\* C29: a room broadcasts voting_finished at most once and stores its top matches
\* at most once
C29_FinishedAtMostOnce ==
    finished_sent <= 1 /\ top_saved <= 1

\* the positions a search can return: those of a vector that has a payload row
SearchablePositions ==
    {i \in DOMAIN vectors : i <= Len(content_data)}

\* C30: at every position a search can return, the payload is that of the item
\* whose vector was added at the position
C30_PayloadBelongsToVector ==
    \A i \in SearchablePositions : Key(content_data[i]) = vectors[i]


====
